---- MODULE Spec2Model ----
(***************************************************************************)
(* Model of the fx3kit driver core, src/hardware/fx3kit/api.c:             *)
(*   - fx3_reset, fx3_install_firmware, fx3_upload_firmware: the firmware  *)
(*     installation protocol, one step per libusb / resource call;         *)
(*   - dev_open: the re-enumeration polling loop and the interface claim.  *)
(* Every libusb call is an external call whose outcome is chosen           *)
(* nondeterministically; what was sent is recorded in a log.               *)
(***************************************************************************)
EXTENDS Integers, Sequences, FiniteSets, TLC

VARIABLES
    \* ---- fx3_upload_firmware / fx3_install_firmware ----
    pc,           \* position inside fx3_upload_firmware
    ipc,          \* position inside fx3_install_firmware
    fx3,          \* gboolean fx3
    desc,         \* how the firmware resource was built (input description)
    firmware,     \* content of the firmware resource `name`, the loaded buffer
    length,       \* size_t length
    offset,       \* size_t offset
    addr,         \* size_t addr
    sublength,    \* size_t sublength
    suboffset,    \* size_t suboffset
    install_ret,  \* value returned by fx3_install_firmware (when ipc = "returned")
    upload_ret,   \* value returned by fx3_upload_firmware (when pc = "returned")
    hdl,          \* TRUE while the handle opened by fx3_upload_firmware is open
    xfers,        \* log of the libusb_control_transfer calls, in order
    segs,         \* segments the parser accepted: [addr, start, len]
    \* ---- dev_open on one device record (sdi, devc, usb) ----
    opc,            \* position inside dev_open ("idle": no call in progress)
    fw_updated,     \* devc->fw_updated, microseconds, 0: no upload
    cur_samplerate, \* devc->cur_samplerate
    devhdl,         \* usb->devhdl # NULL
    address,        \* usb->address
    claimed,        \* the interface is claimed on usb->devhdl
    now,            \* g_get_monotonic_time(), microseconds
    max_renum,      \* MAX_RENUM_DELAY_MS of the build, milliseconds
    timediff_ms,    \* int64_t timediff_ms
    ret,            \* int ret of dev_open
    open_ret,       \* value returned by dev_open (when opc = "returned")
    entry,          \* now and cur_samplerate when dev_open was entered
    events,         \* sleeps, open attempts and claims of this dev_open call
    calls,          \* dev_open calls made so far
    \* ---- dev_close, config_get, config_set on the same record ----
    dev_caps_fx3,    \* devc->profile->dev_caps & DEV_CAPS_FX3
    num_samplerates, \* devc->num_samplerates
    limit_samples,   \* devc->limit_samples
    capture_ratio,   \* devc->capture_ratio
    bus,             \* usb->bus
    last,            \* the last dev_close / config_get / config_set call:
                     \* its arguments, the libusb calls it made, what it
                     \* wrote to *data and what it returned
    nops,            \* dev_close / config_get / config_set calls made so far
    \* ---- scan ----
    spc,             \* position in scan
    devlist,         \* the devices libusb_get_device_list returns, in order
    conn,            \* whether a conn option was given
    devi,            \* i: index of the device the loop is at
    devices,         \* the list scan builds: one record per sdi
    open_handles,    \* the handles scan and the functions it called have
                     \* opened and not closed
    uploads          \* the fx3_upload_firmware calls scan made

fwvars == <<pc, ipc, fx3, desc, firmware, length, offset, addr, sublength,
            suboffset, install_ret, upload_ret, hdl, xfers, segs>>

devvars == <<opc, fw_updated, cur_samplerate, devhdl, address, claimed, now,
             max_renum, timediff_ms, ret, open_ret, entry, events, calls>>

\* what neither fx3_upload_firmware nor dev_open touches: cfgvars, scanvars
cfgvars == <<dev_caps_fx3, num_samplerates, limit_samples, capture_ratio, bus, last, nops>>

\* what neither fx3_upload_firmware nor dev_open touches
scanvars == <<spc, devlist, conn, devi, devices, open_handles, uploads>>

restvars == <<cfgvars, scanvars>>

vars == <<fwvars, devvars, restvars>>

-----------------------------------------------------------------------------
(* Program constants *)

FW_CHUNKSIZE == 4096

SR_OK == 0
SR_ERR == -1

\* libusb_control_transfer arguments
LIBUSB_REQUEST_TYPE_VENDOR == 64
LIBUSB_ENDPOINT_OUT == 0
REQ_FIRMWARE_LOAD == 160
CPUCS_ADDR == 58880

\* sr_resource_load size limits
MaxSizeFx3 == 536 * 1024
MaxSizeLegacy == 65536

\* RL32() yields a 32-bit unsigned value; wValue and wIndex are 16 bits wide.
\* A 32-bit value is kept as its two 16-bit halves [hi, lo].
U16 == 65536
HALF == U16 \div 2

\* error codes libusb_control_transfer can return (IO, NO_DEVICE)
TransferErrors == {-1, -4}

-----------------------------------------------------------------------------
(* Helpers *)

MIN(a, b) == IF a < b THEN a ELSE b

U32(h, l) == [hi |-> h, lo |-> l]

\* RL32(p): little-endian 32-bit read at byte offset off of buf
RL32(buf, off) ==
    U32(buf[off + 3] + 256 * buf[off + 4], buf[off + 1] + 256 * buf[off + 2])

\* x << 2 in 32-bit unsigned arithmetic: bits shifted past bit 31 are lost
Shl2(x) ==
    LET l == 4 * x.lo
    IN  U32((4 * x.hi + (l \div U16)) % U16, l % U16)

\* the value of x as a size_t (defined for x < 2^31)
Val(x) == x.hi * U16 + x.lo

\* x > n for a 32-bit x and a size n < 2^31
Exceeds(x, n) == IF x.hi >= HALF THEN TRUE ELSE Val(x) > n

\* the four little-endian bytes of a 32-bit value (used to build images)
LE32(x) == << x.lo % 256, x.lo \div 256, x.hi % 256, x.hi \div 256 >>

-----------------------------------------------------------------------------
(* Firmware resources the installer is run on.                             *)
(* An image is built from a description: a 4-byte signature, a list of     *)
(* segments [w, a, n] (header declaring w words at address a, followed by  *)
(* n payload bytes), an optional tail, with `cut` bytes dropped at the end.*)

MaxSegs == 2     \* segments in an image built from small segments
MaxWords == 2    \* word count of a small segment
MaxCut == 12     \* bytes dropped from the end of an image

CYSig == <<67, 89, 28, 176>>                       \* 'C' 'Y' 0x1c 0xb0
OtherSigs == { <<67, 89, 0, 176>>,                 \* byte 2 differs: valid
               <<66, 89, 28, 176>>, <<67, 88, 28, 176>>,
               <<67, 89, 28, 177>> }               \* bytes 0, 1, 3 wrong
Checksum == <<222, 173, 190, 239>>
Tails == { <<>>, Checksum }

Addrs == { U32(0, 256), U32(16384, 12288) }        \* 0x100, 0x40003000

\* payload byte i of the k-th segment
PayloadByte(k, i) == (7 * i + 13 * k + 3) % 251
Payload(k, n) == [i \in 1..n |-> PayloadByte(k, i)]

SegBytes(k, sg) == LE32(sg.w) \o LE32(sg.a) \o Payload(k, sg.n)

RECURSIVE SegsBytes(_, _)
SegsBytes(sgs, k) ==
    IF k > Len(sgs) THEN <<>>
    ELSE SegBytes(k, sgs[k]) \o SegsBytes(sgs, k + 1)

DropTail(s, c) == SubSeq(s, 1, IF Len(s) > c THEN Len(s) - c ELSE 0)

Build(d) == DropTail(d.sig \o SegsBytes(d.segs, 1) \o d.tail, d.cut)

\* a segment of w words (w < 2^16) at address a = [hi, lo], all bytes present
Whole(w, a) == [w |-> U32(0, w), a |-> a, n |-> 4 * w]
Lo == U32(0, 256)

SmallSegs == { Whole(w, a) : w \in 0..MaxWords, a \in Addrs }

SmallLists == UNION { [1..k -> SmallSegs] : k \in 0..MaxSegs }

ShortLists == { <<>>, << Whole(1, Lo) >> }

\* segments of more than one chunk: 4100 bytes crossing a 64 KiB boundary
\* (0xf800), 8192 bytes (exactly two chunks), 8196 bytes at 0xfffff000,
\* which end above 2^32
BigLists ==
    { << Whole(1025, U32(0, 63488)) >>,
      << Whole(2048, Lo) >>,
      << Whole(1, Lo), Whole(2049, U32(65535, 61440)), Whole(2, Lo) >> }

\* headers whose word count is 2^30 or more: the declared byte length is
\* 2^32 or more, the bytes present are few
HugeLists ==
    { << [w |-> U32(16384, 0), a |-> Lo, n |-> 0] >>,
      << [w |-> U32(16384, 1), a |-> Lo, n |-> 4] >>,
      << Whole(1, Lo), [w |-> U32(16384, 1), a |-> Lo, n |-> 4] >> }

Desc(g, s, t, c) == [sig |-> g, segs |-> s, tail |-> t, cut |-> c]

Descs ==
    { Desc(CYSig, s, t, c) : s \in SmallLists, t \in Tails, c \in 0..MaxCut }
    \cup { Desc(g, s, t, 0) : g \in OtherSigs, s \in ShortLists, t \in Tails }
    \cup { Desc(CYSig, s, t, c) :
             s \in BigLists \cup HugeLists, t \in Tails, c \in {0, 1, 4} }

-----------------------------------------------------------------------------
(* fx3_reset and the control transfers *)

\* what libusb_control_transfer can return for a transfer of n bytes
Rets(n) == {n} \cup TransferErrors

\* one libusb_control_transfer call; `by` and `seg` only tell the log's
\* reader which function issued it and for which accepted segment
Xfer(by, seg, type, value, index, data, r) ==
    [by |-> by, seg |-> seg, bmRequestType |-> type,
     bRequest |-> REQ_FIRMWARE_LOAD, wValue |-> value, wIndex |-> index,
     data |-> data, ret |-> r]

\* (mutant) buf[0] inverted
ResetXfer_Inverted(set_clear, r) ==
    Xfer("fx3_reset", 0, LIBUSB_REQUEST_TYPE_VENDOR, CPUCS_ADDR, 0,
         << IF set_clear THEN 0 ELSE 1 >>, r)

\* fx3_reset(hdl, set_clear) with libusb returning r
ResetXfer(set_clear, r) ==
    Xfer("fx3_reset", 0, LIBUSB_REQUEST_TYPE_VENDOR, CPUCS_ADDR, 0,
         << IF set_clear THEN 1 ELSE 0 >>, r)

-----------------------------------------------------------------------------
(* fx3_install_firmware *)

MaxSize(isfx3) == IF isfx3 THEN MaxSizeFx3 ELSE MaxSizeLegacy

\* (mutant) the signature check without the test of byte 3
SignatureOk_NoByte3(fw, len) ==
    /\ len >= 4
    /\ fw[1] = 67
    /\ fw[2] = 89

\* length >= 4 and firmware[0] = 'C', firmware[1] = 'Y', firmware[3] = 0xb0
SignatureOk(fw, len) ==
    /\ len >= 4
    /\ fw[1] = 67
    /\ fw[2] = 89
    /\ fw[4] = 176

\* sublength = RL32(firmware + offset) << 2
HeaderSublength(fw, off) == Shl2(RL32(fw, off))

\* addr = RL32(firmware + offset), read after offset += 4
HeaderAddr(fw, off) == RL32(fw, off + 4)

\* (mutant) the checksum test with the wrong comparison
AtChecksum_Wrong(off, len) == off + 4 > len

\* if (offset + 4 == length): only the checksum is left
AtChecksum(off, len) == off + 4 = len

\* if (length < offset + 8): no room for a segment header
HeaderCut(off, len) == len < off + 8

\* if (sublength > length - offset), offset being past the header
PayloadCut(sub, off, len) == Exceeds(sub, len - off)

\* chunksize = MIN(sublength - suboffset, FW_CHUNKSIZE)
ChunkSize(sub, suboff) == MIN(sub - suboff, FW_CHUNKSIZE)

\* (mutant) the value field without the offset inside the segment
ChunkValue_NoOffset(a, suboff) == a.lo % U16

\* (addr + suboffset) & 0xffff
ChunkValue(a, suboff) == (a.lo + suboff) % U16

\* (addr + suboffset) >> 16, passed as the 16-bit wIndex
ChunkIndex(a, suboff) == (a.hi + ((a.lo + suboff) \div U16)) % U16

\* firmware + offset + suboffset, chunksize bytes
ChunkData(fw, off, suboff, n) == SubSeq(fw, off + suboff + 1, off + suboff + n)

\* (mutant) only LIBUSB_ERROR_IO is taken for a failure
TransferFailed_OnlyIO(r) == r = -1

\* if (ret < 0) after libusb_control_transfer
TransferFailed(r) == r < 0

\* while (suboffset < sublength) of the do-loop
MoreChunks(suboff, sub) == suboff < sub

\* if (offset < length) after the loop
IsTruncated(off, len) == off < len

InstallReturn(r) ==
    /\ install_ret' = r
    /\ ipc' = "returned"

\* sr_resource_load(): NULL when the resource cannot be read or is too large
InstallLoad ==
    /\ pc = "install" /\ ipc = "load"
    /\ \E ok \in BOOLEAN :
         IF ok /\ Len(firmware) <= MaxSize(fx3)
         THEN /\ length' = Len(firmware)
              /\ offset' = 0
              /\ ipc' = "signature"
              /\ UNCHANGED install_ret
         ELSE /\ InstallReturn(SR_ERR)
              /\ UNCHANGED <<length, offset>>
    /\ UNCHANGED <<restvars, devvars, pc, fx3, desc, firmware, addr, sublength, suboffset,
                   upload_ret, hdl, xfers, segs>>

\* if (fx3) { signature check; offset = 4; }
InstallSignature ==
    /\ pc = "install" /\ ipc = "signature"
    /\ IF fx3
       THEN IF ~SignatureOk(firmware, length)
            THEN InstallReturn(SR_ERR) /\ UNCHANGED offset
            ELSE offset' = 4 /\ ipc' = "loop" /\ UNCHANGED install_ret
       ELSE ipc' = "loop" /\ UNCHANGED <<offset, install_ret>>
    /\ UNCHANGED <<restvars, devvars, pc, fx3, desc, firmware, length, addr, sublength,
                   suboffset, upload_ret, hdl, xfers, segs>>

\* a segment is accepted: suboffset = 0 and the do-loop is entered
Accept(a, off, sub) ==
    /\ addr' = a
    /\ offset' = off
    /\ sublength' = sub
    /\ suboffset' = 0
    /\ segs' = Append(segs, [addr |-> a, start |-> off, len |-> sub])
    /\ ipc' = "chunk"

\* break: sublength and addr are dead after it
Break(off) ==
    /\ offset' = off
    /\ ipc' = "finish"
    /\ UNCHANGED <<addr, sublength, suboffset, segs>>

\* while (offset < length) { header of the next segment ... }
InstallLoop ==
    /\ pc = "install" /\ ipc = "loop"
    /\ IF ~(offset < length)
       THEN Break(offset)
       ELSE IF fx3
            THEN IF AtChecksum(offset, length)
                 THEN Break(offset + 4)
                 ELSE IF HeaderCut(offset, length)
                      THEN Break(offset)
                      ELSE LET sub == HeaderSublength(firmware, offset)
                               a == HeaderAddr(firmware, offset)
                           IN  IF PayloadCut(sub, offset + 8, length)
                               THEN Break(offset + 8)
                               ELSE Accept(a, offset + 8, Val(sub))
            ELSE Accept(U32(0, 0), offset, length - offset)
    /\ UNCHANGED <<restvars, devvars, pc, fx3, desc, firmware, length, install_ret, upload_ret,
                   hdl, xfers>>

\* one pass of do { libusb_control_transfer(...) } while (suboffset < sublength)
InstallChunk ==
    /\ pc = "install" /\ ipc = "chunk"
    /\ LET chunksize == ChunkSize(sublength, suboffset)
       IN  \E r \in Rets(chunksize) :
             /\ xfers' = Append(xfers,
                    Xfer("fx3_install_firmware", Len(segs),
                         LIBUSB_REQUEST_TYPE_VENDOR + LIBUSB_ENDPOINT_OUT,
                         ChunkValue(addr, suboffset),
                         ChunkIndex(addr, suboffset),
                         ChunkData(firmware, offset, suboffset, chunksize), r))
             /\ IF TransferFailed(r)
                THEN InstallReturn(SR_ERR) /\ UNCHANGED <<suboffset, offset>>
                ELSE /\ suboffset' = suboffset + chunksize
                     /\ UNCHANGED install_ret
                     /\ IF MoreChunks(suboffset + chunksize, sublength)
                        THEN ipc' = "chunk" /\ UNCHANGED offset
                        ELSE ipc' = "loop" /\ offset' = offset + sublength
    /\ UNCHANGED <<restvars, devvars, pc, fx3, desc, firmware, length, addr, sublength,
                   upload_ret, hdl, segs>>

\* g_free(firmware); if (offset < length) return SR_ERR; return result;
InstallFinish ==
    /\ pc = "install" /\ ipc = "finish"
    /\ InstallReturn(IF IsTruncated(offset, length) THEN SR_ERR ELSE SR_OK)
    /\ UNCHANGED <<restvars, devvars, pc, fx3, desc, firmware, length, offset, addr, sublength,
                   suboffset, upload_ret, hdl, xfers, segs>>

-----------------------------------------------------------------------------
(* fx3_upload_firmware *)

UploadReturn(r) ==
    /\ upload_ret' = r
    /\ pc' = "returned"

\* libusb_open(dev, &hdl)
UploadOpen ==
    /\ pc = "open"
    /\ \E ok \in BOOLEAN :
         IF ok THEN hdl' = TRUE /\ pc' = "kernel_driver" /\ UNCHANGED upload_ret
         ELSE UploadReturn(SR_ERR) /\ UNCHANGED hdl
    /\ UNCHANGED <<restvars, devvars, ipc, fx3, desc, firmware, length, offset, addr, sublength,
                   suboffset, install_ret, xfers, segs>>

\* libusb_kernel_driver_active / libusb_detach_kernel_driver
UploadDetach ==
    /\ pc = "kernel_driver"
    /\ \E active \in BOOLEAN, detached \in BOOLEAN :
         IF active /\ ~detached
         THEN UploadReturn(SR_ERR)
         ELSE pc' = "set_configuration" /\ UNCHANGED upload_ret
    /\ UNCHANGED <<restvars, devvars, ipc, fx3, desc, firmware, length, offset, addr, sublength,
                   suboffset, install_ret, hdl, xfers, segs>>

\* libusb_set_configuration(hdl, configuration)
UploadSetConfiguration ==
    /\ pc = "set_configuration"
    /\ \E ok \in BOOLEAN :
         IF ok THEN pc' = "reset_on" /\ UNCHANGED upload_ret
         ELSE UploadReturn(SR_ERR)
    /\ UNCHANGED <<restvars, devvars, ipc, fx3, desc, firmware, length, offset, addr, sublength,
                   suboffset, install_ret, hdl, xfers, segs>>

\* if (!fx3 && fx3_reset(hdl, set_clear) < 0) return SR_ERR; else go on at next
UploadReset(at, set_clear, next) ==
    /\ pc = at
    /\ IF fx3
       THEN pc' = next /\ UNCHANGED <<upload_ret, xfers>>
       ELSE \E r \in Rets(1) :
              /\ xfers' = Append(xfers, ResetXfer(set_clear, r))
              /\ IF TransferFailed(r) THEN UploadReturn(SR_ERR)
                 ELSE pc' = next /\ UNCHANGED upload_ret
    /\ UNCHANGED <<restvars, devvars, ipc, fx3, desc, firmware, length, offset, addr, sublength,
                   suboffset, install_ret, hdl, segs>>

UploadResetOn == UploadReset("reset_on", TRUE, "install")

\* if (fx3_install_firmware(ctx, hdl, name, fx3) < 0) return SR_ERR;
UploadInstallReturned ==
    /\ pc = "install" /\ ipc = "returned"
    /\ IF install_ret < 0 THEN UploadReturn(SR_ERR)
       ELSE pc' = "reset_off" /\ UNCHANGED upload_ret
    /\ UNCHANGED <<restvars, devvars, ipc, fx3, desc, firmware, length, offset, addr, sublength,
                   suboffset, install_ret, hdl, xfers, segs>>

UploadResetOff == UploadReset("reset_off", FALSE, "close")

\* libusb_close(hdl); return SR_OK;
UploadClose ==
    /\ pc = "close"
    /\ hdl' = FALSE
    /\ UploadReturn(SR_OK)
    /\ UNCHANGED <<restvars, devvars, ipc, fx3, desc, firmware, length, offset, addr, sublength,
                   suboffset, install_ret, xfers, segs>>

-----------------------------------------------------------------------------
(* dev_open *)

\* static const uint64_t samplerates[]
samplerates ==
    << 200000, 250000, 500000, 1000000, 2000000, 3000000, 4000000, 6000000,
       8000000, 12000000, 16000000, 24000000, 32000000, 48000000, 64000000,
       96000000, 192000000 >>

\* g_usleep(300 * 1000) and g_usleep(100 * 1000)
GRACE_US == 300000
POLL_US == 100000

\* the address scan records for a device that is to re-enumerate
ADDR_UNKNOWN == 255

\* the address the device has on the bus once it is found
ADDR_REAL == 5

\* libusb_claim_interface: 0, LIBUSB_ERROR_NO_DEVICE, _BUSY, _OTHER
ClaimRets == {0, -4, -6, -99}

Event(kind, arg) == [kind |-> kind, arg |-> arg]

\* (mutant) >= for >
NeedsRenumWait_Always(fwu) == fwu >= 0

\* if (devc->fw_updated > 0)
NeedsRenumWait(fwu) == fwu > 0

\* while (timediff_ms < MAX_RENUM_DELAY_MS)
PollAgain(td, max) == td < max

\* (mutant) the loop is left on a failed attempt
OpenSucceeded_Inverted(r) == r # SR_OK

\* if ((ret = fx3kit_dev_open(sdi, di)) == SR_OK) break;
OpenSucceeded(r) == r = SR_OK

\* (mutant) microseconds taken for tenths of a millisecond
TimeDiffMs_WrongUnit(t, fwu) == (t - fwu) \div 10000

\* timediff_us = g_get_monotonic_time() - devc->fw_updated;
\* timediff_ms = timediff_us / 1000;
TimeDiffMs(t, fwu) == (t - fwu) \div 1000

\* (mutant) only LIBUSB_ERROR_BUSY is taken for a failure
ClaimFailed_BusyOnly(r) == r = -6

\* if (ret != 0) after libusb_claim_interface
ClaimFailed(r) == r # 0

\* fx3kit_dev_open(sdi, di): finds the device again and opens it. On success
\* usb->devhdl holds the handle and usb->address the address found.
FxDevOpen(r) ==
    /\ devhdl' = IF r = SR_OK THEN TRUE ELSE devhdl
    /\ address' = IF r = SR_OK THEN ADDR_REAL ELSE address

\* (mutant) the lowest rate is set at every successful dev_open
DefaultRate_Always(cur) == samplerates[1]

\* if (devc->cur_samplerate == 0) devc->cur_samplerate = devc->samplerates[0];
DefaultRate(cur) == IF cur = 0 THEN samplerates[1] ELSE cur

DevOpenReturn(r) ==
    /\ open_ret' = r
    /\ opc' = "returned"

MaxCalls == 2    \* dev_open calls on the record

\* entry of dev_open: ret = SR_ERR; if (devc->fw_updated > 0) ...
\* It is entered on a record that is not open: a fresh one, a closed one, or
\* one whose last dev_open returned an error.
DevOpenEnter ==
    /\ opc \in {"idle", "returned"}
    /\ ~(devhdl /\ claimed)
    /\ calls < MaxCalls
    /\ calls' = calls + 1
    /\ ret' = SR_ERR
    /\ entry' = [now |-> now, cur_samplerate |-> cur_samplerate]
    /\ events' = <<>>
    /\ opc' = IF NeedsRenumWait(fw_updated) THEN "grace" ELSE "open_once"
    /\ UNCHANGED <<restvars, fwvars, fw_updated, cur_samplerate, devhdl, address,
                   claimed, now, max_renum, timediff_ms, open_ret>>

\* g_usleep(300 * 1000); timediff_ms = 0;
DevOpenGrace ==
    /\ opc = "grace"
    /\ now' = now + GRACE_US
    /\ events' = Append(events, Event("sleep", GRACE_US))
    /\ timediff_ms' = 0
    /\ opc' = "poll"
    /\ UNCHANGED <<restvars, fwvars, fw_updated, cur_samplerate, devhdl, address,
                   claimed, max_renum, ret, open_ret, entry, calls>>

\* while (timediff_ms < MAX_RENUM_DELAY_MS) { ret = fx3kit_dev_open(); ...
DevOpenPoll ==
    /\ opc = "poll"
    /\ IF PollAgain(timediff_ms, max_renum)
       THEN \E r \in {SR_OK, SR_ERR} :
              /\ FxDevOpen(r)
              /\ ret' = r
              /\ events' = Append(events, Event("open", r))
              /\ opc' = IF OpenSucceeded(r) THEN "after_poll" ELSE "poll_sleep"
       ELSE /\ opc' = "after_poll"
            /\ UNCHANGED <<devhdl, address, ret, events>>
    /\ UNCHANGED <<restvars, fwvars, fw_updated, cur_samplerate, claimed, now,
                   max_renum, timediff_ms, open_ret, entry, calls>>

\* g_usleep(100 * 1000); timediff_ms = (now - fw_updated) / 1000; }
DevOpenPollSleep ==
    /\ opc = "poll_sleep"
    /\ now' = now + POLL_US
    /\ events' = Append(events, Event("sleep", POLL_US))
    /\ timediff_ms' = TimeDiffMs(now + POLL_US, fw_updated)
    /\ opc' = "poll"
    /\ UNCHANGED <<restvars, fwvars, fw_updated, cur_samplerate, devhdl, address,
                   claimed, max_renum, ret, open_ret, entry, calls>>

\* if (ret != SR_OK) return SR_ERR;  (after the loop, and again before the claim)
DevOpenAfterPoll ==
    /\ opc = "after_poll"
    /\ IF ret # SR_OK THEN DevOpenReturn(SR_ERR)
       ELSE opc' = "claim" /\ UNCHANGED open_ret
    /\ UNCHANGED <<restvars, fwvars, fw_updated, cur_samplerate, devhdl, address,
                   claimed, now, max_renum, timediff_ms, ret, entry, events,
                   calls>>

\* else { ret = fx3kit_dev_open(sdi, di); }  if (ret != SR_OK) return SR_ERR;
DevOpenOnce ==
    /\ opc = "open_once"
    /\ \E r \in {SR_OK, SR_ERR} :
         /\ FxDevOpen(r)
         /\ ret' = r
         /\ events' = Append(events, Event("open", r))
         /\ IF r # SR_OK THEN DevOpenReturn(SR_ERR)
            ELSE opc' = "claim" /\ UNCHANGED open_ret
    /\ UNCHANGED <<restvars, fwvars, fw_updated, cur_samplerate, claimed, now,
                   max_renum, timediff_ms, entry, calls>>

\* ret = libusb_claim_interface(usb->devhdl, USB_INTERFACE); ... the default
\* sample rate; return SR_OK;
DevOpenClaim ==
    /\ opc = "claim"
    /\ \E r \in ClaimRets :
         /\ ret' = r
         /\ events' = Append(events, Event("claim", r))
         /\ IF ClaimFailed(r)
            THEN /\ DevOpenReturn(SR_ERR)
                 /\ UNCHANGED <<cur_samplerate, claimed>>
            ELSE /\ claimed' = TRUE
                 /\ cur_samplerate' = DefaultRate(cur_samplerate)
                 /\ DevOpenReturn(SR_OK)
    /\ UNCHANGED <<restvars, fwvars, fw_updated, devhdl, address, now, max_renum,
                   timediff_ms, entry, calls>>

-----------------------------------------------------------------------------
(* dev_close, config_get, config_set *)

\* enum sr_error_code
SR_ERR_ARG == -3
SR_ERR_BUG == -4
SR_ERR_NA == -6

\* #define NUM_FX3_RATES 5: the rates at the end of samplerates[] that only a
\* DEV_CAPS_FX3 device has
NUM_FX3_RATES == 5

\* devc->num_samplerates = ARRAY_SIZE(samplerates);
\* if (!(prof->dev_caps & DEV_CAPS_FX3)) devc->num_samplerates -= NUM_FX3_RATES;
NumSamplerates(caps_fx3) ==
    IF caps_fx3 THEN Len(samplerates) ELSE Len(samplerates) - NUM_FX3_RATES

\* the configuration keys the switch statements tell apart, and one of the
\* keys that fall to default:
SR_CONF_CONN == "SR_CONF_CONN"
SR_CONF_LIMIT_SAMPLES == "SR_CONF_LIMIT_SAMPLES"
SR_CONF_SAMPLERATE == "SR_CONF_SAMPLERATE"
SR_CONF_CAPTURE_RATIO == "SR_CONF_CAPTURE_RATIO"
SR_CONF_OTHER == "SR_CONF_TRIGGER_MATCH"

ConfigKeys ==
    { SR_CONF_CONN, SR_CONF_LIMIT_SAMPLES, SR_CONF_SAMPLERATE,
      SR_CONF_CAPTURE_RATIO, SR_CONF_OTHER }

\* values passed to config_set: rates of the table (the first, the last one a
\* device without DEV_CAPS_FX3 has, the last) and values that are no rate of
\* the table (zero, one between two entries)
SetValues ==
    { samplerates[1], samplerates[12], samplerates[17],
      0, samplerates[12] + 1 }

\* the config_set calls made: every value as a sample rate, one value for
\* each of the other keys, and a call without a device
SetCalls ==
    { <<SR_CONF_SAMPLERATE, v, TRUE>> : v \in SetValues }
    \cup { <<key, samplerates[1], TRUE>> :
              key \in ConfigKeys \ {SR_CONF_SAMPLERATE} }
    \cup { <<SR_CONF_SAMPLERATE, samplerates[1], FALSE>> }

\* the config_get calls made: every key, and a call without a device
GetCalls ==
    { <<key, TRUE>> : key \in ConfigKeys } \cup { <<SR_CONF_CONN, FALSE>> }

\* a call of dev_close, config_get or config_set: the function, its key and
\* value, whether it was given a device, the libusb calls it made, what it
\* stored through *data, what it returned, and how many dev_open calls had
\* been made before it
Call(fn, key, arg, sdi, libusb, out, r) ==
    [fn |-> fn, key |-> key, arg |-> arg, sdi |-> sdi, libusb |-> libusb,
     out |-> out, ret |-> r, opens |-> calls]

NoCall ==
    [fn |-> "none", key |-> "", arg |-> 0, sdi |-> TRUE, libusb |-> <<>>,
     out |-> <<>>, ret |-> SR_OK, opens |-> 0]

MaxOps == 2    \* dev_close, config_get and config_set calls on the record

\* these run between two dev_open calls, never inside one
Callable ==
    /\ opc \in {"idle", "returned"}
    /\ nops < MaxOps
    /\ nops' = nops + 1

\* (mutant) the handle is never found missing
NoHandle_Never(h) == FALSE

\* if (!usb->devhdl)
NoHandle(h) == ~h

\* dev_close(sdi)
DevClose ==
    /\ Callable
    /\ IF NoHandle(devhdl)
       THEN /\ last' = Call("dev_close", "", 0, TRUE, <<>>, <<>>, SR_ERR_BUG)
            /\ UNCHANGED <<devhdl, claimed>>
       ELSE /\ last' = Call("dev_close", "", 0, TRUE,
                            <<"libusb_release_interface", "libusb_close">>,
                            <<>>, SR_OK)
            /\ claimed' = FALSE
            /\ devhdl' = FALSE
    /\ UNCHANGED <<scanvars, fwvars, opc, fw_updated, cur_samplerate, address, now,
                   max_renum, timediff_ms, ret, open_ret, entry, events,
                   calls, dev_caps_fx3, num_samplerates, limit_samples,
                   capture_ratio, bus>>

\* std_u64_idx(data, arr, n): the index of the value among the first n
\* entries of arr, or -1 when it is none of them
std_u64_idx(v, arr, n) ==
    IF \E i \in 1..n : arr[i] = v
    THEN (CHOOSE i \in 1..n : arr[i] = v) - 1
    ELSE -1

\* (mutant) the whole table is searched, whatever the device
RateIdx_WholeTable(v, n) == std_u64_idx(v, samplerates, Len(samplerates))

\* idx = std_u64_idx(data, devc->samplerates, devc->num_samplerates)
RateIdx(v, n) == std_u64_idx(v, samplerates, n)

\* config_set(key, data, sdi, cg)
ConfigSet ==
    /\ Callable
    /\ \E c \in SetCalls :
         LET key == c[1]
             v == c[2]
             sdi == c[3]
             Returns(r) == last' = Call("config_set", key, v, sdi, <<>>, <<>>, r)
             idx == RateIdx(v, num_samplerates)
         IN  IF ~sdi
             THEN /\ Returns(SR_ERR_ARG)
                  /\ UNCHANGED <<cur_samplerate, limit_samples, capture_ratio>>
             ELSE CASE key = SR_CONF_SAMPLERATE ->
                         IF idx < 0
                         THEN /\ Returns(SR_ERR_ARG)
                              /\ UNCHANGED <<cur_samplerate, limit_samples,
                                             capture_ratio>>
                         ELSE /\ cur_samplerate' = samplerates[idx + 1]
                              /\ Returns(SR_OK)
                              /\ UNCHANGED <<limit_samples, capture_ratio>>
                    [] key = SR_CONF_LIMIT_SAMPLES ->
                         /\ limit_samples' = v
                         /\ Returns(SR_OK)
                         /\ UNCHANGED <<cur_samplerate, capture_ratio>>
                    [] key = SR_CONF_CAPTURE_RATIO ->
                         /\ capture_ratio' = v
                         /\ Returns(SR_OK)
                         /\ UNCHANGED <<cur_samplerate, limit_samples>>
                    [] OTHER ->
                         /\ Returns(SR_ERR_NA)
                         /\ UNCHANGED <<cur_samplerate, limit_samples,
                                        capture_ratio>>
    /\ UNCHANGED <<scanvars, fwvars, opc, fw_updated, devhdl, address, claimed, now,
                   max_renum, timediff_ms, ret, open_ret, entry, events,
                   calls, dev_caps_fx3, num_samplerates, bus>>

\* (mutant) the address is never taken for the sentinel
AddressUnknown_Never(a) == FALSE

\* if (usb->address == 255)
AddressUnknown(a) == a = 255

\* g_variant_new_printf("%d.%d", usb->bus, usb->address): the text, kept as
\* the two numbers it prints
ConnText(b, a) == <<b, a>>

\* config_get(key, data, sdi, cg). sdi->conn is set for every record scan
\* creates.
ConfigGet ==
    /\ Callable
    /\ \E c \in GetCalls :
         LET key == c[1]
             sdi == c[2]
             Returns(out, r) ==
                 last' = Call("config_get", key, 0, sdi, <<>>, out, r)
         IN  IF ~sdi
             THEN Returns(<<>>, SR_ERR_ARG)
             ELSE CASE key = SR_CONF_CONN ->
                         IF AddressUnknown(address)
                         THEN Returns(<<>>, SR_ERR)
                         ELSE Returns(ConnText(bus, address), SR_OK)
                    [] key = SR_CONF_LIMIT_SAMPLES ->
                         Returns(<<limit_samples>>, SR_OK)
                    [] key = SR_CONF_SAMPLERATE ->
                         Returns(<<cur_samplerate>>, SR_OK)
                    [] key = SR_CONF_CAPTURE_RATIO ->
                         Returns(<<capture_ratio>>, SR_OK)
                    [] OTHER ->
                         Returns(<<>>, SR_ERR_NA)
    /\ UNCHANGED <<scanvars, fwvars, opc, fw_updated, cur_samplerate, devhdl, address,
                   claimed, now, max_renum, timediff_ms, ret, open_ret, entry,
                   events, calls, dev_caps_fx3, num_samplerates,
                   limit_samples, capture_ratio, bus>>

-----------------------------------------------------------------------------
(* scan *)

\* a string pointer that is NULL
NULL == "(null)"

\* static const struct fx3kit_profile supported_fx3[], without the
\* terminating entry: vid, pid, vendor, model, model_version, firmware,
\* dev_caps, usb_manufacturer, usb_product
supported_fx3 ==
    << [vid |-> 1204, pid |-> 243, vendor |-> "Cypress",
        model |-> "SuperSpeed Explorer Kit", model_version |-> NULL,
        firmware |-> "fx3lafw-cypress-fx3.fw", dev_caps_fx3 |-> TRUE,
        usb_manufacturer |-> NULL, usb_product |-> NULL] >>

\* enum sr_dev_inst_status
SR_ST_INITIALIZING == "SR_ST_INITIALIZING"
SR_ST_INACTIVE == "SR_ST_INACTIVE"

\* is_plausible(&des)
is_plausible(des) ==
    \E j \in 1..Len(supported_fx3) :
        /\ des.idVendor = supported_fx3[j].vid
        /\ des.idProduct = supported_fx3[j].pid

\* the conn filter: the device is one of conn_devices
InConn(d) == d.in_conn

\* libusb_get_string_descriptor_ascii(hdl, index, ...) < 0
ReadFails(d, index, name) == index # 0 /\ name \in d.fail

\* what the buffer holds after `if (index == 0) buf[0] = '\0'; else read`
Text(index, text) == IF index = 0 THEN "" ELSE text

\* (mutant) a failed serial number read is not noticed
StringFails_NoSerial(d) ==
    \/ ReadFails(d, d.iManufacturer, "manufacturer")
    \/ ReadFails(d, d.iProduct, "product")

\* one of the three reads of manufacturer, product, serial number fails
StringFails(d) ==
    \/ ReadFails(d, d.iManufacturer, "manufacturer")
    \/ ReadFails(d, d.iProduct, "product")
    \/ ReadFails(d, d.iSerialNumber, "serial_num")

\* the test in the loop over supported_fx3[j]
ProfileFits(pr, d, manufacturer, product) ==
    /\ d.idVendor = pr.vid
    /\ d.idProduct = pr.pid
    /\ pr.usb_manufacturer = NULL \/ manufacturer = pr.usb_manufacturer
    /\ pr.usb_product = NULL \/ product = pr.usb_product

\* prof: the index of the first entry that fits, 0 for prof == NULL
ProfileMatch(d, manufacturer, product) ==
    LET fits == { j \in 1..Len(supported_fx3) :
                    ProfileFits(supported_fx3[j], d, manufacturer, product) }
    IN  IF fits = {} THEN 0
        ELSE CHOOSE j \in fits : \A k \in fits : j <= k

\* usb_match_manuf_prod(devlist[i], manufacturer, product): the device's
\* manufacturer and product strings are the given ones
usb_match_manuf_prod(d, manufacturer, product) ==
    /\ Text(d.iManufacturer, d.manufacturer) = manufacturer
    /\ Text(d.iProduct, d.product) = product

\* (mutant) no device is taken to have the firmware
HasFirmware_Never(d) == FALSE

\* has_firmware = usb_match_manuf_prod(devlist[i], "sigrok", "fx3lafw");
HasFirmware(d) == usb_match_manuf_prod(d, "sigrok", "fx3lafw")

\* the sdi as it is appended to devices: sdi->status, sdi->conn not yet set,
\* devc->fw_updated, devc->num_samplerates; dev is the index in devlist of the
\* device it stands for
NewSdi(dev, pr) ==
    [dev |-> dev, status |-> SR_ST_INITIALIZING, conn |-> FALSE, bus |-> 0,
     address |-> 0, fw_updated |-> 0,
     num_samplerates |-> NumSamplerates(pr.dev_caps_fx3)]

\* sdi->conn = sr_usb_dev_inst_new(bus, address, NULL)
WithConn(sdi, b, a) == [sdi EXCEPT !.conn = TRUE, !.bus = b, !.address = a]

\* g_get_monotonic_time() when scan stored fw_updated, microseconds
ScanTimes == { 1000000 }

\* (mutant) every upload is taken for a success
UploadOk_Always(r) == TRUE

\* if (fx3_upload_firmware(...) == SR_OK)
UploadOk(r) == r = SR_OK

\* the handles left open, with the device and the function that opened them
Handle(dev, by) == [dev |-> dev, by |-> by]

\* one pass of the loop over devlist[i], up to the end of the pass or to the
\* call of fx3_upload_firmware
ScanDevice ==
    /\ spc = "loop"
    /\ devi <= Len(devlist)
    /\ LET d == devlist[devi]
           manufacturer == Text(d.iManufacturer, d.manufacturer)
           product == Text(d.iProduct, d.product)
           j == ProfileMatch(d, manufacturer, product)
           sdi == NewSdi(devi, supported_fx3[j])
           \* continue, with the handles h open
           Continue(h) ==
               /\ devi' = devi + 1
               /\ open_handles' = h
               /\ UNCHANGED <<spc, devices, uploads, fwvars>>
       IN  IF conn /\ ~InConn(d) THEN Continue(open_handles)
           ELSE IF ~is_plausible(d) THEN Continue(open_handles)
           ELSE IF ~d.open_ok THEN Continue(open_handles)
           ELSE IF StringFails(d)
                \* continue with hdl open
                THEN Continue(open_handles \cup {Handle(devi, "scan")})
           \* libusb_close(hdl)
           ELSE IF ~d.path_ok THEN Continue(open_handles)
           ELSE IF j = 0 THEN Continue(open_handles)
           ELSE IF HasFirmware(d)
                THEN /\ devices' =
                          Append(devices,
                                 WithConn([sdi EXCEPT !.status = SR_ST_INACTIVE],
                                          d.bus, d.address))
                     /\ devi' = devi + 1
                     /\ UNCHANGED <<spc, open_handles, uploads, fwvars>>
                ELSE \* fx3_upload_firmware(ctx, devlist[i], USB_CONFIGURATION,
                     \*                     prof->firmware, fx3) is entered
                     /\ devices' = Append(devices, sdi)
                     /\ uploads' = Append(uploads, [dev |-> devi,
                                                    done |-> FALSE,
                                                    ret |-> SR_ERR])
                     /\ spc' = "upload"
                     /\ pc' = "open"
                     /\ ipc' = "load"
                     /\ fx3' = supported_fx3[j].dev_caps_fx3
                     /\ firmware' = Build(desc)
                     /\ length' = 0
                     /\ offset' = 0
                     /\ addr' = U32(0, 0)
                     /\ sublength' = 0
                     /\ suboffset' = 0
                     /\ install_ret' = SR_OK
                     /\ upload_ret' = SR_OK
                     /\ hdl' = FALSE
                     /\ xfers' = <<>>
                     /\ segs' = <<>>
                     /\ UNCHANGED <<desc, devi, open_handles>>
    /\ UNCHANGED <<devvars, cfgvars, devlist, conn>>

\* fx3_upload_firmware has returned: devc->fw_updated, sdi->conn, and on to
\* the next device
ScanUploadReturned ==
    /\ spc = "upload"
    /\ pc = "returned"
    /\ \E t \in ScanTimes :
         LET n == Len(devices)
             d == devlist[devi]
             sdi == IF UploadOk(upload_ret)
                    THEN [devices[n] EXCEPT !.fw_updated = t]
                    ELSE devices[n]
         IN  devices' = [devices EXCEPT
                           ![n] = WithConn(sdi, d.bus, ADDR_UNKNOWN)]
    /\ uploads' = [uploads EXCEPT ![Len(uploads)].done = TRUE,
                                  ![Len(uploads)].ret = upload_ret]
    /\ open_handles' =
           IF hdl THEN open_handles \cup {Handle(devi, "fx3_upload_firmware")}
           ELSE open_handles
    /\ devi' = devi + 1
    /\ spc' = "loop"
    /\ UNCHANGED <<fwvars, devvars, cfgvars, devlist, conn>>

\* devlist[i] == NULL: the lists are freed and devices is returned
ScanReturn ==
    /\ spc = "loop"
    /\ devi > Len(devlist)
    /\ spc' = "returned"
    /\ UNCHANGED <<fwvars, devvars, cfgvars, devlist, conn, devi, devices,
                   open_handles, uploads>>

-----------------------------------------------------------------------------
(* The side that is not running *)

NoUpload ==
    /\ pc = "idle"
    /\ ipc = "idle"
    /\ fx3 = TRUE
    /\ desc = Desc(CYSig, <<>>, <<>>, 0)
    /\ firmware = <<>>
    /\ length = 0
    /\ offset = 0
    /\ addr = U32(0, 0)
    /\ sublength = 0
    /\ suboffset = 0
    /\ install_ret = SR_OK
    /\ upload_ret = SR_OK
    /\ hdl = FALSE
    /\ xfers = <<>>
    /\ segs = <<>>

NoScan ==
    /\ spc = "idle"
    /\ devlist = <<>>
    /\ conn = FALSE
    /\ devi = 0
    /\ devices = <<>>
    /\ open_handles = {}
    /\ uploads = <<>>

NoConfig ==
    /\ dev_caps_fx3 = TRUE
    /\ num_samplerates = NumSamplerates(TRUE)
    /\ limit_samples = 0
    /\ capture_ratio = 0
    /\ bus = 1
    /\ last = NoCall
    /\ nops = 0

NoDevice ==
    /\ NoConfig
    /\ opc = "idle"
    /\ fw_updated = 0
    /\ cur_samplerate = 0
    /\ devhdl = FALSE
    /\ address = ADDR_UNKNOWN
    /\ claimed = FALSE
    /\ now = 0
    /\ max_renum = 0
    /\ timediff_ms = 0
    /\ ret = SR_OK
    /\ open_ret = SR_OK
    /\ entry = [now |-> 0, cur_samplerate |-> 0]
    /\ events = <<>>
    /\ calls = 0

-----------------------------------------------------------------------------
(* fx3_upload_firmware run on every image, for both kinds of device *)

InitUpload ==
    /\ pc = "open"
    /\ ipc = "load"
    /\ fx3 \in BOOLEAN
    /\ desc \in Descs
    /\ firmware = Build(desc)
    /\ length = 0
    /\ offset = 0
    /\ addr = U32(0, 0)
    /\ sublength = 0
    /\ suboffset = 0
    /\ install_ret = SR_OK
    /\ upload_ret = SR_OK
    /\ hdl = FALSE
    /\ xfers = <<>>
    /\ segs = <<>>
    /\ NoDevice
    /\ NoScan

NextUpload ==
    \/ UploadOpen
    \/ UploadDetach
    \/ UploadSetConfiguration
    \/ UploadResetOn
    \/ InstallLoad
    \/ InstallSignature
    \/ InstallLoop
    \/ InstallChunk
    \/ InstallFinish
    \/ UploadInstallReturned
    \/ UploadResetOff
    \/ UploadClose

SpecUpload == InitUpload /\ [][NextUpload]_vars

\* the same runs, on the images whose word counts are below 2^16 only
InitUploadPlain ==
    /\ InitUpload
    /\ \A k \in 1..Len(desc.segs) : desc.segs[k].w.hi = 0

SpecUploadPlain == InitUploadPlain /\ [][NextUpload]_vars

-----------------------------------------------------------------------------
(* dev_open on a record as scan leaves it *)

\* time between the firmware upload and the dev_open call, microseconds
Elapsed == { 0, 999, 150000, 2950000, 10000000 }

\* values of MAX_RENUM_DELAY_MS, milliseconds
RenumDelays == { 0, 250, 1000, 3000 }

\* the record scan leaves: firmware present (real address, no timestamp),
\* firmware uploaded (address unknown, timestamp), upload failed (address
\* unknown, no timestamp)
ScanLeaves(fwu, a) ==
    \/ fwu = 0 /\ a = ADDR_REAL
    \/ fwu \in ScanTimes /\ a = ADDR_UNKNOWN
    \/ fwu = 0 /\ a = ADDR_UNKNOWN

InitOpen ==
    /\ NoUpload
    /\ opc = "idle"
    /\ fw_updated \in {0} \cup ScanTimes
    /\ address \in {ADDR_REAL, ADDR_UNKNOWN}
    /\ ScanLeaves(fw_updated, address)
    /\ cur_samplerate \in {0, samplerates[4]}
    /\ devhdl = FALSE
    /\ claimed = FALSE
    /\ now \in { fw_updated + e : e \in Elapsed }
    /\ max_renum \in RenumDelays
    /\ timediff_ms = 0
    /\ ret = SR_OK
    /\ open_ret = SR_OK
    /\ entry = [now |-> 0, cur_samplerate |-> 0]
    /\ events = <<>>
    /\ calls = 0
    /\ NoConfig
    /\ NoScan

NextOpen ==
    \/ DevOpenEnter
    \/ DevOpenGrace
    \/ DevOpenPoll
    \/ DevOpenPollSleep
    \/ DevOpenAfterPoll
    \/ DevOpenOnce
    \/ DevOpenClaim

SpecOpen == InitOpen /\ [][NextOpen]_vars

\* dev_open runs on: every call it makes returns
SpecOpenFair == SpecOpen /\ WF_vars(NextOpen)

-----------------------------------------------------------------------------
(* dev_open, dev_close, config_get and config_set in any order, on a record
   as scan leaves it *)

\* usb->bus of the record
Buses == { 3 }

InitLife ==
    /\ NoUpload
    /\ opc = "idle"
    /\ fw_updated \in {0} \cup ScanTimes
    /\ address \in {ADDR_REAL, ADDR_UNKNOWN}
    /\ ScanLeaves(fw_updated, address)
    /\ cur_samplerate = 0
    /\ devhdl = FALSE
    /\ claimed = FALSE
    /\ now = fw_updated
    /\ max_renum = 250
    /\ timediff_ms = 0
    /\ ret = SR_OK
    /\ open_ret = SR_OK
    /\ entry = [now |-> 0, cur_samplerate |-> 0]
    /\ events = <<>>
    /\ calls = 0
    /\ dev_caps_fx3 \in BOOLEAN
    /\ num_samplerates = NumSamplerates(dev_caps_fx3)
    /\ limit_samples = 0
    /\ capture_ratio = 0
    /\ bus \in Buses
    /\ last = NoCall
    /\ nops = 0
    /\ NoScan

NextLife ==
    \/ NextOpen
    \/ DevClose
    \/ ConfigSet
    \/ ConfigGet

SpecLife == InitLife /\ [][NextLife]_vars

-----------------------------------------------------------------------------
(* scan on every list of attached devices *)

MaxDevs == 2    \* devices attached

\* a device in the state the FX3 boot loader leaves it, which scan lists
BootDevice ==
    [idVendor |-> 1204, idProduct |-> 243, bus |-> 1, address |-> 0,
     in_conn |-> TRUE, open_ok |-> TRUE, iManufacturer |-> 1, iProduct |-> 2,
     iSerialNumber |-> 3, manufacturer |-> "Cypress",
     product |-> "WestBridge", fail |-> {}, path_ok |-> TRUE]

\* the same device running the firmware
FirmwareDevice ==
    [BootDevice EXCEPT !.manufacturer = "sigrok", !.product = "fx3lafw"]

\* a device and what can be different about it: it is not one the conn
\* option names, has another product id, cannot be opened, has no string
\* descriptors, has one that cannot be read, or has no port path
Variants(d) ==
    { d,
      [d EXCEPT !.in_conn = FALSE],
      [d EXCEPT !.idProduct = 34323],
      [d EXCEPT !.open_ok = FALSE],
      [d EXCEPT !.iManufacturer = 0, !.iProduct = 0, !.iSerialNumber = 0],
      [d EXCEPT !.fail = {"manufacturer"}],
      [d EXCEPT !.fail = {"product"}],
      [d EXCEPT !.fail = {"serial_num"}],
      [d EXCEPT !.iSerialNumber = 0, !.fail = {"serial_num"}],
      [d EXCEPT !.path_ok = FALSE] }

DeviceKinds == Variants(BootDevice) \cup Variants(FirmwareDevice)

\* the k-th device of the list has address k + 1
Attach(ks) == [k \in 1..Len(ks) |-> [ks[k] EXCEPT !.address = k + 1]]

\* the firmware file of the profile: complete, cut short, with a wrong
\* signature
ScanDescs ==
    { Desc(CYSig, << Whole(1, Lo) >>, Checksum, 0),
      Desc(CYSig, << Whole(1, Lo) >>, Checksum, 5),
      Desc(<<67, 89, 28, 177>>, <<>>, Checksum, 0) }

InitScan ==
    /\ pc = "idle"
    /\ ipc = "idle"
    /\ fx3 = TRUE
    /\ desc \in ScanDescs
    /\ firmware = <<>>
    /\ length = 0
    /\ offset = 0
    /\ addr = U32(0, 0)
    /\ sublength = 0
    /\ suboffset = 0
    /\ install_ret = SR_OK
    /\ upload_ret = SR_OK
    /\ hdl = FALSE
    /\ xfers = <<>>
    /\ segs = <<>>
    /\ NoDevice
    /\ spc = "loop"
    /\ devlist \in { Attach(ks) :
                       ks \in UNION { [1..n -> DeviceKinds] : n \in 0..MaxDevs } }
    /\ conn \in BOOLEAN
    /\ conn = FALSE => \A k \in 1..Len(devlist) : devlist[k].in_conn
    /\ devi = 1
    /\ devices = <<>>
    /\ open_handles = {}
    /\ uploads = <<>>

NextScan ==
    \/ ScanDevice
    \/ NextUpload
    \/ ScanUploadReturned
    \/ ScanReturn

SpecScan == InitScan /\ [][NextScan]_vars

-----------------------------------------------------------------------------
(* Properties of the firmware installation, checked under SpecUpload *)

IsChunk(x) == x.by = "fx3_install_firmware"
IsReset(x) == x.by = "fx3_reset"

\* the chunk transfers issued for the k-th accepted segment, in order
ChunksOf(k) == SelectSeq(xfers, LAMBDA x : IsChunk(x) /\ x.seg = k)

RECURSIVE Flatten(_)
Flatten(xs) == IF xs = <<>> THEN <<>> ELSE Head(xs).data \o Flatten(Tail(xs))

AllOk == \A i \in 1..Len(xfers) : xfers[i].ret >= 0

\* sr_resource_load succeeded: the buffer is the whole resource
Loaded == ipc # "load" /\ length = Len(firmware)

InstallDone == ipc = "returned"

\* the signature of section 3: 'C', 'Y', any byte, 0xB0
ValidSignature(img) ==
    Len(img) >= 4 /\ img[1] = 67 /\ img[2] = 89 /\ img[4] = 176

\* 4 * w > n for a 32-bit word count w and n < 2^31, without wrap-around
DeclaresMoreThan(w, n) ==
    IF w.hi >= 8192 THEN TRUE ELSE 4 * Val(w) > n

\* Walking the segments of an image from position p: the position just
\* after the first header that declares more bytes than remain after it,
\* or -1 when the walk ends without meeting such a header.
RECURSIVE Offending(_, _)
Offending(img, p) ==
    IF p + 8 > Len(img) THEN -1
    ELSE LET w == RL32(img, p)
         IN  IF DeclaresMoreThan(w, Len(img) - (p + 8)) THEN p + 8
             ELSE Offending(img, p + 8 + 4 * Val(w))

\* C1 (as claimed): an extended image with a valid signature in which a
\* segment header declares more bytes than remain after it is never
\* installed with SR_OK, and nothing is transferred for that segment,
\* wherever the header lies (the last 8 bytes of the image included).
C1_TruncatedRejected ==
    (fx3 /\ Loaded /\ InstallDone /\ ValidSignature(firmware)
         /\ Offending(firmware, 4) >= 0)
    => /\ install_ret < 0
       /\ \A k \in 1..Len(segs) : segs[k].start # Offending(firmware, 4)

\* the image was built whole: a good signature, every segment with all the
\* bytes its header declares, nothing or the checksum after them, no cut
WellFormed(d) ==
    /\ ValidSignature(d.sig)
    /\ \A k \in 1..Len(d.segs) :
         d.segs[k].w.hi = 0 /\ d.segs[k].n = 4 * d.segs[k].w.lo
    /\ d.tail \in {<<>>, Checksum}
    /\ d.cut = 0

\* the segments an image description encodes: (address, payload bytes)
Encoded(d) ==
    [k \in 1..Len(d.segs) |->
        [addr |-> d.segs[k].a, bytes |-> Payload(k, d.segs[k].n)]]

\* what was uploaded, segment by segment: the address of the segment's
\* first transfer and the bytes of all its transfers
Uploaded ==
    [k \in 1..Len(segs) |->
        [addr |-> U32(ChunksOf(k)[1].wIndex, ChunksOf(k)[1].wValue),
         bytes |-> Flatten(ChunksOf(k))]]

\* only payload bytes were sent: the signature, the headers and the tail
\* account for every byte of the image that was not
OnlyPayloadSent(d) ==
    Len(Flatten(xfers)) = Len(firmware) - 4 - 8 * Len(d.segs) - Len(d.tail)

UploadedAsEncoded ==
    /\ install_ret = SR_OK
    /\ Uploaded = Encoded(desc)
    /\ OnlyPayloadSent(desc)

\* C2 (as claimed): every well-formed extended image is uploaded segment by
\* segment as encoded, the install returns SR_OK and the trailing checksum
\* is never sent.
C2_WellFormedUploaded ==
    (fx3 /\ WellFormed(desc) /\ Loaded /\ InstallDone) => UploadedAsEncoded

\* C2 (amended): the same, when every control transfer succeeds.
C2_WellFormedUploadedIfAllOk ==
    (fx3 /\ WellFormed(desc) /\ Loaded /\ InstallDone /\ AllOk)
    => UploadedAsEncoded

C2_Witness ==
    /\ fx3 /\ WellFormed(desc) /\ Loaded /\ InstallDone /\ AllOk
    /\ desc.tail = Checksum
    /\ Len(desc.segs) = 2
    /\ desc.segs[2].n > 0
    /\ Len(xfers) = 2

\* the segment accepted as the k-th is complete: the do-loop has left it
SegComplete(k) == k < Len(segs) \/ ipc # "chunk"

\* the bytes of the k-th accepted segment
SegData(k) == SubSeq(firmware, segs[k].start + 1, segs[k].start + segs[k].len)

\* the j-th chunk of the k-th segment, at offset o = 4096 * (j - 1): at most
\* 4096 bytes, the segment's bytes from o on, value field (a + o) mod 65536
ChunkAsClaimed(k, j) ==
    LET c == ChunksOf(k)[j]
        o == 4096 * (j - 1)
        n == segs[k].len
    IN  /\ Len(c.data) <= 4096
        /\ c.data = SubSeq(firmware, segs[k].start + o + 1,
                           segs[k].start + MIN(o + 4096, n))
        /\ c.wValue = (segs[k].addr.lo + o) % 65536

\* (a + o) div 65536 for a = [hi, lo]
AddrDiv(a, o) == a.hi + ((a.lo + o) \div 65536)

ChunkingAsClaimed ==
    /\ \A k \in 1..Len(segs) :
         /\ \A j \in 1..Len(ChunksOf(k)) : ChunkAsClaimed(k, j)
         /\ SegComplete(k) => Flatten(ChunksOf(k)) = SegData(k)
    /\ ~fx3 =>
         /\ Len(segs) <= 1
         /\ \A k \in 1..Len(segs) :
              segs[k] = [addr |-> U32(0, 0), start |-> 0, len |-> length]

\* C3 (as claimed): when all transfers succeed, every chunk carries at most
\* 4096 bytes, the chunks of a segment are its bytes at offsets 0, 4096, ...
\* and the chunk at offset o has value (a+o) mod 65536 and index
\* (a+o) div 65536; a legacy image is one segment, a = 0, n = length.
C3_Chunking ==
    AllOk =>
      /\ ChunkingAsClaimed
      /\ \A k \in 1..Len(segs) : \A j \in 1..Len(ChunksOf(k)) :
           ChunksOf(k)[j].wIndex = AddrDiv(segs[k].addr, 4096 * (j - 1))

\* C3 (amended): the same, the index field being ((a+o) div 65536) mod 65536
\* (the field is 16 bits wide; it is (a+o) div 65536 whenever a+o < 2^32).
C3_ChunkingIndex16 ==
    AllOk =>
      /\ ChunkingAsClaimed
      /\ \A k \in 1..Len(segs) : \A j \in 1..Len(ChunksOf(k)) :
           ChunksOf(k)[j].wIndex
               = AddrDiv(segs[k].addr, 4096 * (j - 1)) % 65536

\* a segment of three chunks has been uploaded, the last chunk a short one
C3_Witness ==
    /\ AllOk /\ fx3 /\ InstallDone /\ install_ret = SR_OK
    /\ \E k \in 1..Len(segs) :
         /\ Len(ChunksOf(k)) = 3
         /\ Len(ChunksOf(k)[3].data) = 4
         /\ ChunksOf(k)[2].wValue = 0

\* bytes 0, 1, 3 are not 'C', 'Y', 0xB0, or the image is shorter than 4 bytes
BadSignature(img) ==
    \/ Len(img) < 4
    \/ img[1] # 67
    \/ img[2] # 89
    \/ img[4] # 176

\* C4: in extended mode an image with a bad signature makes the install and
\* the upload return an error, and no control transfer (chunk or reset) has
\* been issued.
C4_BadSignatureNoTransfer ==
    (fx3 /\ BadSignature(firmware)) =>
      /\ xfers = <<>>
      /\ InstallDone => install_ret < 0
      /\ pc = "returned" => upload_ret < 0

C4_Witness ==
    /\ fx3 /\ Loaded /\ InstallDone /\ pc = "returned"
    /\ Len(firmware) >= 16
    /\ firmware[1] = 67 /\ firmware[2] = 89 /\ firmware[4] # 176

ChunkFailed == \E i \in 1..Len(xfers) : IsChunk(xfers[i]) /\ xfers[i].ret < 0

\* C5: once a chunk transfer has failed, the install has returned an error
\* and no control transfer is issued any more; an install that returned
\* SR_OK had every transfer it issued succeed.
C5_FailureAborts ==
    /\ [](ChunkFailed => (InstallDone /\ install_ret < 0))
    /\ []((InstallDone /\ install_ret = SR_OK) =>
            \A i \in 1..Len(xfers) : IsChunk(xfers[i]) => xfers[i].ret >= 0)
    /\ [][ChunkFailed => xfers' = xfers]_vars

\* the second chunk of a segment failed, after a first segment was uploaded
C5_Witness ==
    /\ ChunkFailed /\ pc = "returned"
    /\ Len(segs) = 2
    /\ Len(ChunksOf(2)) = 2

ResetOn(x) ==
    /\ IsReset(x) /\ x.wValue = 58880 /\ x.wIndex = 0 /\ x.data = <<1>>

ResetOff(x) ==
    /\ IsReset(x) /\ x.wValue = 58880 /\ x.wIndex = 0 /\ x.data = <<0>>

\* C6: a legacy upload that returned SR_OK issued one reset-assert, then
\* the firmware chunks, then one reset-release; no chunk is sent after a
\* failed reset-assert; an extended-format upload never issues a reset.
C6_ResetOrder ==
    /\ (~fx3 /\ pc = "returned" /\ upload_ret = SR_OK) =>
         /\ Len(xfers) >= 2
         /\ ResetOn(xfers[1])
         /\ ResetOff(xfers[Len(xfers)])
         /\ \A i \in 2..(Len(xfers) - 1) : IsChunk(xfers[i])
    /\ ~fx3 =>
         /\ xfers # <<>> => ResetOn(xfers[1])
         /\ (xfers # <<>> /\ xfers[1].ret < 0) => Len(xfers) = 1
    /\ fx3 => \A i \in 1..Len(xfers) : ~IsReset(xfers[i])

\* a legacy upload of more than one chunk returned SR_OK
C6_Witness ==
    /\ ~fx3 /\ pc = "returned" /\ upload_ret = SR_OK
    /\ Len(xfers) = 5

-----------------------------------------------------------------------------
(* Properties of dev_open, checked under SpecOpen *)

InCall == opc \notin {"idle"}

IsSleep(e) == e.kind = "sleep"
IsOpen(e) == e.kind = "open"
IsClaim(e) == e.kind = "claim"

Count(P(_)) == Cardinality({ i \in 1..Len(events) : P(events[i]) })

\* C7: with fw_updated zero dev_open sleeps never and attempts one open;
\* when that attempt fails it returns an error at once, with no claim.
C7_SingleAttempt ==
    (InCall /\ fw_updated = 0) =>
      /\ Count(IsSleep) = 0
      /\ now = entry.now
      /\ Count(IsOpen) <= 1
      /\ opc \in {"claim", "returned"} => Count(IsOpen) = 1
      /\ (Count(IsOpen) = 1 /\ events[1].arg # SR_OK) =>
           /\ opc = "returned"
           /\ open_ret < 0
           /\ Count(IsClaim) = 0

C7_Witness ==
    /\ fw_updated = 0 /\ opc = "returned" /\ open_ret < 0
    /\ events = << Event("open", SR_ERR) >>

\* C8: with fw_updated non-zero the first thing dev_open does is the 300 ms
\* sleep, every failed open attempt is followed by a 100 ms sleep, and
\* nothing but the claim follows a successful attempt.
C8_PollingOrder ==
    (InCall /\ fw_updated # 0) =>
      /\ events # <<>> => events[1] = Event("sleep", 300000)
      /\ \A i \in 1..Len(events) :
           (IsOpen(events[i]) /\ events[i].arg # SR_OK /\ i < Len(events))
             => events[i + 1] = Event("sleep", 100000)
      /\ \A i \in 1..Len(events) :
           (IsOpen(events[i]) /\ events[i].arg = SR_OK) =>
              \A j \in (i + 1)..Len(events) : IsClaim(events[j])
      /\ \A i \in 1..Len(events) :
           IsOpen(events[i]) => now >= entry.now + 300000

\* two attempts failed, the third succeeded
C8_Witness ==
    /\ fw_updated # 0 /\ opc = "claim"
    /\ Count(IsOpen) = 3
    /\ Count(IsSleep) = 3

AllOpensFailed ==
    \A i \in 1..Len(events) : IsOpen(events[i]) => events[i].arg # SR_OK

\* 300 ms + ceil(MAX_RENUM_DELAY_MS / 100) * 100 ms, in microseconds
TimeBoundUs == (300 + ((max_renum + 99) \div 100) * 100) * 1000

\* C9: with fw_updated non-zero and every open attempt failing, dev_open
\* ends, returns an error, and has spent at most
\* 300 ms + ceil(MAX_RENUM_DELAY_MS / 100) * 100 ms, whatever time had
\* elapsed since the upload.
C9_PollingBounded ==
    /\ []((InCall /\ fw_updated # 0 /\ AllOpensFailed) =>
            /\ now - entry.now <= TimeBoundUs
            /\ opc = "returned" => open_ret < 0)
    /\ (opc = "grace") ~> (opc = "returned")

\* the loop ran its longest: the upload had just been made
C9_Witness ==
    /\ fw_updated # 0 /\ opc = "returned" /\ AllOpensFailed
    /\ max_renum = 1000
    /\ entry.now = fw_updated
    /\ Count(IsOpen) = 7

\* C10: a dev_open call claims at most once and only right after an open
\* attempt that succeeded; when the claim returns non-zero dev_open returns
\* an error, makes no other attempt and leaves cur_samplerate as it was.
C10_ClaimOnce ==
    InCall =>
      /\ Count(IsClaim) <= 1
      /\ \A i \in 1..Len(events) :
           IsClaim(events[i]) =>
             /\ i > 1
             /\ IsOpen(events[i - 1]) /\ events[i - 1].arg = SR_OK
             /\ i = Len(events)
             /\ events[i].arg # 0 =>
                  /\ opc = "returned"
                  /\ open_ret < 0
                  /\ cur_samplerate = entry.cur_samplerate

\* the claim found the interface busy, no sample rate was set before
C10_Witness ==
    /\ opc = "returned" /\ open_ret < 0
    /\ events # <<>>
    /\ events[Len(events)] = Event("claim", -6)
    /\ cur_samplerate = 0
    /\ fw_updated # 0

-----------------------------------------------------------------------------
(* Properties of dev_close, config_set and config_get, checked under SpecLife *)

\* the step is a call of fn, made and returned
Called(fn) == nops' = nops + 1 /\ last'.fn = fn

\* the fields of the record that dev_close, config_get and config_set can read
Record ==
    <<fw_updated, cur_samplerate, devhdl, address, claimed, dev_caps_fx3,
      num_samplerates, limit_samples, capture_ratio, bus>>

\* C11: dev_close on a record without a handle returns SR_ERR_BUG, makes no
\* libusb call and changes nothing; on a record with a handle it releases the
\* interface, closes the handle, clears it and returns SR_OK. So the second of
\* two dev_close calls in a row returns SR_ERR_BUG.
C11_DevClose ==
    [][Called("dev_close") =>
        /\ ~devhdl => /\ last'.ret = SR_ERR_BUG
                      /\ last'.libusb = <<>>
                      /\ Record' = Record
        /\ devhdl => /\ last'.libusb =
                            <<"libusb_release_interface", "libusb_close">>
                     /\ ~devhdl'
                     /\ last'.ret = SR_OK
        /\ last.fn = "dev_close" /\ last.opens = calls
              => last'.ret = SR_ERR_BUG]_vars

\* a dev_close that found a handle was followed at once by another one
C11_Witness ==
    /\ last.fn = "dev_close"
    /\ last.ret = SR_ERR_BUG
    /\ last.opens = 1
    /\ nops = 2
    /\ open_ret = SR_OK
    /\ ~devhdl

\* the rates a device can be set to: all 17 of the table for a DEV_CAPS_FX3
\* profile, the 12 from 200 kHz to 24 MHz for any other
Applicable(caps_fx3) ==
    IF caps_fx3
    THEN { samplerates[i] : i \in 1..17 }
    ELSE { r \in { samplerates[i] : i \in 1..17 } :
             r >= 200000 /\ r <= 24000000 }

\* C12: config_set(SAMPLERATE, v) returns SR_OK and sets the current sample
\* rate to v if and only if v is one of the rates applicable to the device;
\* otherwise it returns SR_ERR_ARG and leaves the sample rate, the sample limit
\* and the capture ratio as they were.
C12_SetSamplerate ==
    [][Called("config_set") /\ last'.sdi /\ last'.key = SR_CONF_SAMPLERATE =>
        /\ Cardinality(Applicable(dev_caps_fx3)) =
               IF dev_caps_fx3 THEN 17 ELSE 12
        /\ IF last'.arg \in Applicable(dev_caps_fx3)
           THEN /\ last'.ret = SR_OK
                /\ cur_samplerate' = last'.arg
           ELSE /\ last'.ret = SR_ERR_ARG
                /\ UNCHANGED <<cur_samplerate, limit_samples,
                               capture_ratio>>]_vars

\* a device without DEV_CAPS_FX3 was set to 24 MHz and then refused 192 MHz
C12_Witness ==
    /\ ~dev_caps_fx3
    /\ last.fn = "config_set"
    /\ last.sdi
    /\ last.key = SR_CONF_SAMPLERATE
    /\ last.arg = 192000000
    /\ last.ret = SR_ERR_ARG
    /\ cur_samplerate = 24000000

\* dev_open has returned and nothing was called since
JustOpened == opc = "returned" /\ last.opens < calls

\* C13: the current sample rate is 0 or one of the rates applicable to the
\* device, whatever was called; when dev_open has returned SR_OK it is not 0:
\* it is 200 kHz if it was 0 when dev_open was called, and what it was
\* otherwise.
C13_SampleRate ==
    /\ cur_samplerate = 0 \/ cur_samplerate \in Applicable(dev_caps_fx3)
    /\ JustOpened /\ open_ret = SR_OK =>
         /\ cur_samplerate # 0
         /\ entry.cur_samplerate = 0 => cur_samplerate = 200000
         /\ entry.cur_samplerate # 0 => cur_samplerate = entry.cur_samplerate

\* a record set to 24 MHz, opened, closed and opened again
C13_Witness ==
    /\ JustOpened
    /\ open_ret = SR_OK
    /\ calls = 2
    /\ nops = 2
    /\ entry.cur_samplerate = 24000000
    /\ cur_samplerate = 24000000

\* C14: config_get(CONN) on a device whose address is 0xFF returns an error
\* and stores no value; on any other address it returns SR_OK and stores the
\* bus and the address of the record. No config_get call changes the sample
\* rate, the sample limit, the capture ratio, fw_updated or the address.
C14_GetConn ==
    [][Called("config_get") =>
        /\ last'.sdi /\ last'.key = SR_CONF_CONN =>
             IF address = 255
             THEN last'.ret < 0 /\ last'.out = <<>>
             ELSE last'.ret = SR_OK /\ last'.out = <<bus, address>>
        /\ UNCHANGED <<cur_samplerate, limit_samples, capture_ratio,
                       fw_updated, address>>]_vars

\* a device that got its firmware in scan was opened, and config_get(CONN)
\* then returned the address it was found at
C14_Witness ==
    /\ last.fn = "config_get"
    /\ last.sdi
    /\ last.key = SR_CONF_CONN
    /\ last.ret = SR_OK
    /\ last.out = <<bus, ADDR_REAL>>
    /\ fw_updated > 0
    /\ devhdl

\* config_get(CONN) was refused on a device that has not come back yet
C14_WitnessRefused ==
    /\ last.fn = "config_get"
    /\ last.sdi
    /\ last.key = SR_CONF_CONN
    /\ last.ret = SR_ERR
    /\ address = ADDR_UNKNOWN

-----------------------------------------------------------------------------
(* Properties of scan, checked under SpecScan *)

\* the devices the returned records stand for, by their place in the
\* enumeration
Listed == [k \in 1..Len(devices) |-> devices[k].dev]

Enumerated == [k \in 1..Len(devlist) |-> k]

PassesFilter(k) == ~conn \/ devlist[k].in_conn

\* the device can be opened and each string descriptor it has can be read
Readable(k) ==
    LET d == devlist[k]
    IN  /\ d.open_ok
        /\ d.iManufacturer # 0 => "manufacturer" \notin d.fail
        /\ d.iProduct # 0 => "product" \notin d.fail
        /\ d.iSerialNumber # 0 => "serial_num" \notin d.fail

\* the one profile of the table: 04b4:00f3, any strings
MatchesProfile(k) ==
    devlist[k].idVendor = 1204 /\ devlist[k].idProduct = 243

Eligible(k) == PassesFilter(k) /\ Readable(k) /\ MatchesProfile(k)

\* usb_get_port_path succeeds for the device
Resolved(k) == devlist[k].path_ok

EligibleResolved(k) == Eligible(k) /\ Resolved(k)

\* C15 (as stated): scan returns exactly the devices that pass the filter,
\* have readable strings and match a profile, once each and in enumeration
\* order, whatever the firmware installs return.
C15_ScanResult ==
    spc = "returned" => Listed = SelectSeq(Enumerated, Eligible)

\* C15 (amended): scan returns exactly the devices that pass the filter, have
\* readable strings, have a port path that resolves and match a profile, once
\* each and in enumeration order, whatever the firmware installs return.
C15_ScanResultResolved ==
    spc = "returned" => Listed = SelectSeq(Enumerated, EligibleResolved)

\* two devices were listed although the install on the first had failed
C15_Witness ==
    /\ spc = "returned"
    /\ Len(devices) = 2
    /\ Len(uploads) >= 1
    /\ uploads[1].dev = 1
    /\ uploads[1].ret # SR_OK

\* fx3_upload_firmware was called for the k-th device of the enumeration
InstallAttempted(k) == \E u \in 1..Len(uploads) : uploads[u].dev = k

InstallSucceeded(k) ==
    \E u \in 1..Len(uploads) :
        uploads[u].dev = k /\ uploads[u].done /\ uploads[u].ret = SR_OK

\* the device identifies itself as "sigrok" / "fx3lafw"
FirmwarePresent(k) ==
    LET d == devlist[k]
    IN  /\ d.iManufacturer # 0 /\ d.manufacturer = "sigrok"
        /\ d.iProduct # 0 /\ d.product = "fx3lafw"

\* C16: in every record scan returns, the address is 0xFF if and only if a
\* firmware install was attempted for the device, fw_updated is not 0 if and
\* only if that install succeeded, and the status is INACTIVE if the firmware
\* was present and INITIALIZING if not; so a record with fw_updated set has
\* the address 0xFF.
C16_ScanRecords ==
    spc = "returned" =>
        \A k \in 1..Len(devices) :
            LET r == devices[k]
            IN  /\ r.conn
                /\ r.address = 255 <=> InstallAttempted(r.dev)
                /\ r.fw_updated # 0 <=> InstallSucceeded(r.dev)
                /\ r.status = IF FirmwarePresent(r.dev) THEN SR_ST_INACTIVE
                              ELSE SR_ST_INITIALIZING
                /\ r.fw_updated # 0 => r.address = 255

\* scan returned a device whose install succeeded and one whose install failed
C16_Witness ==
    /\ spc = "returned"
    /\ Len(devices) = 2
    /\ devices[1].fw_updated # 0
    /\ devices[1].address = 255
    /\ devices[2].fw_updated = 0
    /\ devices[2].address = 255
    /\ devices[2].status = SR_ST_INITIALIZING

\* the k-th device is in the result as a device that has its firmware:
\* INACTIVE, with the bus and the address it has
ListedInactive(k) ==
    \E n \in 1..Len(devices) :
        /\ devices[n].dev = k
        /\ devices[n].status = SR_ST_INACTIVE
        /\ devices[n].conn
        /\ devices[n].bus = devlist[k].bus
        /\ devices[n].address = devlist[k].address

\* C17 (as stated): every attached device whose vendor/product id is in the
\* profile table and whose strings are "sigrok" / "fx3lafw" is in the result
\* of scan, INACTIVE and with its real address, and no firmware install is
\* invoked for it.
C17_FirmwareDeviceListed ==
    spc = "returned" =>
        \A k \in 1..Len(devlist) :
            MatchesProfile(k) /\ FirmwarePresent(k) =>
                ListedInactive(k) /\ ~InstallAttempted(k)

\* C17 (amended): no firmware install is invoked for such a device, and it is
\* in the result, INACTIVE and with its real address, when it passes the
\* filter, can be opened, has its string descriptors read and has a port path
\* that resolves.
C17_FirmwareDeviceListedIfEligible ==
    spc = "returned" =>
        \A k \in 1..Len(devlist) :
            MatchesProfile(k) /\ FirmwarePresent(k) =>
                /\ ~InstallAttempted(k)
                /\ EligibleResolved(k) => ListedInactive(k)

\* a device with the firmware was listed after one that got it in this scan
C17_Witness ==
    /\ spc = "returned"
    /\ Len(devlist) = 2
    /\ InstallSucceeded(1)
    /\ FirmwarePresent(2)
    /\ ListedInactive(2)

\* C19: every handle scan opens to read the string descriptors, and every
\* handle fx3_upload_firmware opens, is closed when scan moves on to the next
\* device; none is open when scan returns.
C19_TransientHandlesClosed ==
    \A h \in open_handles : h.dev >= devi

-----------------------------------------------------------------------------
(* Properties of the handle of a record, checked under SpecLife *)

\* C18: between two lifecycle calls the record is closed (no handle) or open
\* (handle held, interface claimed); after a dev_open call that returned an
\* error it holds no handle.
C18_HandleStates ==
    opc \in {"idle", "returned"} =>
        /\ ~devhdl \/ (devhdl /\ claimed)
        /\ JustOpened /\ open_ret # SR_OK => ~devhdl

-----------------------------------------------------------------------------
(* Properties of the segment length, checked under SpecUpload *)

\* C20: the length used for a segment is exactly four times the word count of
\* its header. A segment that is uploaded lies within the image, which has
\* fewer than 2^20 bytes, so its word count is below 2^16; a header with a word
\* count of 2^30 or more is never taken for a segment to upload.
C20_ExactLength ==
    fx3 =>
        \A k \in 1..Len(segs) :
            LET w == RL32(firmware, segs[k].start - 8)
            IN  /\ w.hi = 0
                /\ segs[k].len = 4 * w.lo

====
